---- MODULE Spec2Model ----
(***************************************************************************)
(* A model of mates (src/mates/cli.rs): the contact directory, the index   *)
(* file, the index rebuild, the "add" command and the index query.         *)
(*                                                                         *)
(* Text is a sequence of tokens; a token is one delimiter character (tab,   *)
(* newline, space, "<", ">") or a run of other characters.  An optional    *)
(* value (Rust's Option) is a sequence of length 0 (None) or 1 (Some(x)).  *)
(* A file is a record [exists, data].                                      *)
(***************************************************************************)
EXTENDS Integers, Sequences, FiniteSets, TLC

VARIABLES
    \* ---- the file system ----
    dirIsDir,     \* the contact directory path is an existing directory
    dir,          \* the contact directory: file name -> entry
    index,        \* the index file
    dir0,         \* the contact directory when the command(s) started
    index0,       \* the index file when the command(s) started
    \* ---- build_index ----
    bpc,          \* position of build_index
    listed,       \* readdir has been called
    entries,      \* the result of readdir
    bi,           \* position of the loop over entries
    errors,       \* the local flag `errors`
    tmp,          \* AtomicFile's temporary file
    bresult,      \* the value build_index returned
    snapshot,     \* what a concurrently running reader last read at the index path
    \* ---- the "add" command, one instance per process ----
    apc,          \* position of each "add" process
    sender,       \* the (fullname, email) each process parsed from the From header
    contact,      \* the Contact each process generated: [path, component]
    atmp,         \* each process's AtomicFile temporary file
    aexit,        \* each process's exit status
    wcres,        \* what write_create returned to each process
    indexWritable,\* the index path can be opened for appending
    \* ---- a query command ----
    qpc,          \* position of the query command
    command,      \* mutt-query, file-query or email-query
    grep_cmd,     \* the configured filter command
    child,        \* the filter process: none, running, filtered, exited
    stdinBuf,     \* what was written to the child's standard input
    stdinOpen,    \* the parent's end of the child's standard input is open
    childOut,     \* the child's standard output so far
    childOutEof,  \* the child has closed its standard output
    output,       \* the local `output` of index_query
    linebuffer,   \* IndexIterator.linebuffer
    yielded,      \* the records IndexIterator::next has returned, in order
    out,          \* the lines the query command printed on standard output
    trace,        \* the operations index_query performed on the child, in order
    qresult       \* what index_query returned

fsVars == <<dirIsDir, dir, index, dir0, index0>>
buildVars == <<bpc, listed, entries, bi, errors, tmp, bresult, snapshot>>
addVars == <<apc, sender, contact, atmp, aexit, wcres, indexWritable>>
queryVars == <<qpc, command, grep_cmd, child, stdinBuf, stdinOpen, childOut,
               childOutEof, output, linebuffer, yielded, out, trace, qresult>>
vars == <<fsVars, buildVars, addVars, queryVars>>

----------------------------------------------------------------------------
(* Bounds of the model *)

\* the most EMAIL properties of a contact file in the directory
MaxEmails == 2
\* the most characters of the index file a query reads
MaxLen == 5

----------------------------------------------------------------------------
(* Text *)

TAB == "\t"
NL == "\n"

\* all sequences over S of length at most n
RECURSIVE SeqsUpTo(_, _)
SeqsUpTo(S, n) ==
    IF n = 0 THEN {<<>>}
    ELSE LET shorter == SeqsUpTo(S, n - 1)
         IN  shorter \cup {Append(s, c) : s \in {t \in shorter : Len(t) = n - 1}, c \in S}

Contains(s, c) == \E k \in 1..Len(s) : s[k] = c

\* str.split(sep): the pieces between occurrences of sep; never empty
\* ("".split(sep) is one empty piece)
RECURSIVE SplitFrom(_, _, _, _)
SplitFrom(s, sep, k, cur) ==
    IF k > Len(s) THEN <<cur>>
    ELSE IF s[k] = sep THEN <<cur>> \o SplitFrom(s, sep, k + 1, <<>>)
    ELSE SplitFrom(s, sep, k + 1, Append(cur, s[k]))

Split(s, sep) == SplitFrom(s, sep, 1, <<>>)

\* the n-th item of an iterator over `parts`, or "" (unwrap_or(""))
PartOr(parts, n) == IF n <= Len(parts) THEN parts[n] ELSE <<>>

NoFile == [exists |-> FALSE, data |-> <<>>]
File(d) == [exists |-> TRUE, data |-> d]

----------------------------------------------------------------------------
(* Contacts and the contact directory *)

\* a vobject Component as this program uses it: the values of its FN, EMAIL
\* and UID properties
Comp(fn, emails, uid) == [FN |-> fn, EMAIL |-> emails, UID |-> uid]

EmptyComp == Comp(<<>>, <<>>, <<>>)

\* component.single_prop(key): Some(value) or None
single_prop(props) == IF Len(props) = 1 THEN <<props[1]>> ELSE <<>>

\* vobject's write_component and parse_component: the text of a contact file
\* either is the serialization of a component or does not parse
write_component(comp) == [ok |-> TRUE, comp |-> comp]

Garbage == [ok |-> FALSE, comp |-> EmptyComp]

parse_component(text) == text

Absent == [kind |-> "absent", text |-> Garbage]
SubDir == [kind |-> "dir", text |-> Garbage]
RegFile(text) == [kind |-> "file", text |-> text]

\* dir.join(name), displayed
VdirPath == <<"/d/">>
PathOf(name) == VdirPath \o name

VcfExt == ".vcf"

\* filename_str().ends_with(".vcf"); a file name is a sequence of segments
EndsWithVcf(name) == Len(name) > 0 /\ name[Len(name)] = VcfExt

\* Contact::from_file
from_file(name) ==
    LET parsed == parse_component(dir[name].text)
    IN  IF parsed.ok
        THEN [ok |-> TRUE, contact |-> [path |-> PathOf(name), component |-> parsed.comp]]
        ELSE [ok |-> FALSE, contact |-> [path |-> PathOf(name), component |-> EmptyComp]]

RECURSIVE RowsFor(_, _, _)
RowsFor(emails, name, path) ==
    IF emails = <<>> THEN <<>>
    ELSE Head(emails) \o <<TAB>> \o name \o <<TAB>> \o path \o <<NL>>
         \o RowsFor(Tail(emails), name, path)

\* a plausible slip: only the first EMAIL property is indexed
index_item_first_email_only(c) ==
    LET name == single_prop(c.component.FN)
    IN  IF name = <<>> THEN [ok |-> FALSE, str |-> <<>>]
        ELSE [ok |-> TRUE,
              str |-> RowsFor(IF c.component.EMAIL = <<>> THEN <<>>
                              ELSE <<Head(c.component.EMAIL)>>, name[1], c.path)]

\* a plausible slip: a contact without FN is indexed with an empty name
index_item_nameless_ok(c) ==
    LET name == single_prop(c.component.FN)
    IN  [ok |-> TRUE,
         str |-> RowsFor(c.component.EMAIL, IF name = <<>> THEN <<>> ELSE name[1], c.path)]

index_item_from_contact(c) ==
    LET name == single_prop(c.component.FN)
    IN  IF name = <<>> THEN [ok |-> FALSE, str |-> <<>>]
        ELSE [ok |-> TRUE, str |-> RowsFor(c.component.EMAIL, name[1], c.path)]

----------------------------------------------------------------------------
(* build_index *)

BuildNames == {<<"1", VcfExt>>, <<"2", VcfExt>>, <<"3", ".txt">>}

EmailValues == {<<"x">>, <<"y">>}
NameValues == {<<"A">>}

BuildComps ==
    {Comp(fn, em, <<>>) : fn \in {<<>>} \cup {<<n>> : n \in NameValues},
                          em \in SeqsUpTo(EmailValues, MaxEmails)}

\* what a directory entry can be before a rebuild
BuildEntryChoices(name) ==
    IF EndsWithVcf(name)
    THEN {Absent, SubDir, RegFile(Garbage)} \cup {RegFile(write_component(c)) : c \in BuildComps}
    ELSE {Absent, RegFile(write_component(Comp(<<<<"A">>>>, <<<<"x">>>>, <<>>)))}

EmptyDir == [n \in BuildNames |-> Absent]

\* an index left by an earlier run, of a contact that is gone since
OldIndex == File(<<"o", TAB, "O", TAB, "/d/", "0", VcfExt, NL>>)

NoSnapshot == [read |-> FALSE, file |-> NoFile]

\* the orders in which readdir can list the entries present
Listings(d) ==
    LET present == {n \in DOMAIN d : d[n].kind # "absent"}
        k == Cardinality(present)
    IN  {s \in [1..k -> present] : \A i, j \in 1..k : i # j => s[i] # s[j]}

BuildIdle ==
    /\ bpc = "idle" /\ listed = FALSE /\ entries = <<>> /\ bi = 0 /\ errors = FALSE
    /\ tmp = NoFile /\ bresult = "none" /\ snapshot = NoSnapshot

AddIdle ==
    /\ apc = <<>> /\ sender = <<>> /\ contact = <<>> /\ atmp = <<>> /\ aexit = <<>> /\ wcres = <<>>
    /\ indexWritable = TRUE

QueryIdle ==
    /\ qpc = "idle" /\ command = "none" /\ grep_cmd = "none" /\ child = "none"
    /\ stdinBuf = <<>> /\ stdinOpen = FALSE /\ childOut = <<>> /\ childOutEof = FALSE
    /\ output = <<>> /\ linebuffer = <<>> /\ yielded = <<>> /\ out = <<>>
    /\ trace = <<>> /\ qresult = "none"

InitBuild ==
    /\ dirIsDir \in BOOLEAN
    /\ dir \in IF dirIsDir
               THEN {d \in [BuildNames -> UNION {BuildEntryChoices(n) : n \in BuildNames}] :
                        \A n \in BuildNames : d[n] \in BuildEntryChoices(n)}
               ELSE {EmptyDir}
    /\ index \in {NoFile, OldIndex}
    /\ dir0 = dir /\ index0 = index
    /\ bpc = "start" /\ listed = FALSE /\ entries = <<>> /\ bi = 0 /\ errors = FALSE
    /\ tmp = NoFile /\ bresult = "none" /\ snapshot = NoSnapshot
    /\ AddIdle /\ QueryIdle

BuildReturn(res) ==
    /\ bpc' = "done"
    /\ bresult' = res

\* a plausible slip: the directory check is missing
BuildCheckDirSkipped ==
    /\ bpc = "start"
    /\ bpc' = "readdir"
    /\ UNCHANGED <<listed, entries, bi, errors, tmp, bresult, snapshot>>

\* lines 71-77: if !dir.is_dir() { return Err(..) }
BuildCheckDir ==
    /\ bpc = "start"
    /\ IF ~dirIsDir
       THEN BuildReturn("ConfigError")
       ELSE bpc' = "readdir" /\ UNCHANGED bresult
    /\ UNCHANGED <<listed, entries, bi, errors, tmp, snapshot>>

\* lines 79-81: AtomicFile::new does no I/O; try!(readdir(dir))
BuildReadDir ==
    /\ bpc = "readdir"
    /\ listed' = TRUE
    /\ \/ /\ dirIsDir
          /\ \E l \in Listings(dir) : entries' = l
          /\ bpc' = "open"
          /\ UNCHANGED bresult
       \/ /\ BuildReturn("IoError")
          /\ UNCHANGED entries
    /\ UNCHANGED <<bi, errors, tmp, snapshot>>

\* line 83: af.write creates the temporary file and hands it to the closure
BuildOpenTmp ==
    /\ bpc = "open"
    /\ \/ /\ tmp' = File(<<>>)
          /\ bpc' = "loop"
          /\ bi' = 1
          /\ UNCHANGED bresult
       \/ /\ BuildReturn("IoError")
          /\ UNCHANGED <<tmp, bi>>
    /\ UNCHANGED <<listed, entries, errors, snapshot>>

\* AtomicFile (crate atomicwrites) hands the closure a temporary file; when
\* the closure returns Ok it puts that file at the path in one step, by a
\* rename with AllowOverwrite and by a link that fails on an existing path
\* with DisallowOverwrite; when the closure returns Err the path is untouched

\* a plausible slip: the rows are written to the index file itself
AfWriteStrInPlace(idx, t, s) ==
    [index |-> File(idx.data \o s), tmp |-> t]

\* line 100: outf.write_str(..) writes to AtomicFile's temporary file
AfWriteStr(idx, t, s) ==
    [index |-> idx, tmp |-> File(t.data \o s)]

\* lines 84-108: one iteration of the loop over entries
BuildEntry ==
    /\ bpc = "loop"
    /\ bi <= Len(entries)
    /\ LET entry == entries[bi] IN
       IF dir[entry].kind # "file" \/ ~EndsWithVcf(entry)
       THEN /\ bi' = bi + 1
            /\ UNCHANGED <<bpc, errors, tmp, bresult, index>>
       ELSE LET read == from_file(entry) IN
            IF ~read.ok
            THEN /\ errors' = TRUE
                 /\ bi' = bi + 1
                 /\ UNCHANGED <<bpc, tmp, bresult, index>>
            ELSE LET item == index_item_from_contact(read.contact) IN
                 IF item.ok
                 THEN \/ /\ LET w == AfWriteStr(index, tmp, item.str)
                            IN  index' = w.index /\ tmp' = w.tmp
                         /\ bi' = bi + 1
                         /\ UNCHANGED <<bpc, errors, bresult>>
                      \/ \* try! of a failed write: the closure returns Err,
                         \* af.write drops the temporary file and returns Err
                         /\ BuildReturn("IoError")
                         /\ tmp' = NoFile
                         /\ UNCHANGED <<bi, errors, index>>
                 ELSE /\ errors' = TRUE
                      /\ bi' = bi + 1
                      /\ UNCHANGED <<bpc, tmp, bresult, index>>
    /\ UNCHANGED <<listed, entries, snapshot>>

\* lines 109-110: the closure returns Ok(()); af.write renames the temporary
\* file over the index path (AllowOverwrite)
BuildCommit ==
    /\ bpc = "loop"
    /\ bi > Len(entries)
    /\ \/ /\ index' = File(tmp.data)
          /\ tmp' = NoFile
          /\ bpc' = "return"
          /\ UNCHANGED bresult
       \/ /\ BuildReturn("IoError")
          /\ tmp' = NoFile
          /\ UNCHANGED index
    /\ UNCHANGED <<listed, entries, bi, errors, snapshot>>

\* lines 112-120
BuildFinish ==
    /\ bpc = "return"
    /\ BuildReturn(IF errors THEN "SeveralErrors" ELSE "Ok")
    /\ UNCHANGED <<listed, entries, bi, errors, tmp, snapshot>>

\* the process is killed (or the machine stops) at any step of the rebuild
BuildCrash ==
    /\ bpc \in {"start", "readdir", "open", "loop", "return"}
    /\ bpc' = "crashed"
    /\ UNCHANGED <<listed, entries, bi, errors, tmp, bresult, snapshot>>

\* a concurrently running query reads the whole index file (index_query,
\* line 369-371)
ReaderRead ==
    /\ snapshot' = [read |-> TRUE, file |-> index]
    /\ UNCHANGED <<bpc, listed, entries, bi, errors, tmp, bresult>>

NextBuild ==
    \/ /\ BuildCheckDir /\ UNCHANGED <<fsVars, addVars, queryVars>>
    \/ /\ BuildReadDir /\ UNCHANGED <<fsVars, addVars, queryVars>>
    \/ /\ BuildOpenTmp /\ UNCHANGED <<fsVars, addVars, queryVars>>
    \/ /\ BuildEntry /\ UNCHANGED <<dirIsDir, dir, dir0, index0, addVars, queryVars>>
    \/ /\ BuildCommit /\ UNCHANGED <<dirIsDir, dir, dir0, index0, addVars, queryVars>>
    \/ /\ BuildFinish /\ UNCHANGED <<fsVars, addVars, queryVars>>
    \/ /\ BuildCrash /\ UNCHANGED <<fsVars, addVars, queryVars>>
    \/ /\ ReaderRead /\ UNCHANGED <<fsVars, addVars, queryVars>>

SpecBuild == InitBuild /\ [][NextBuild]_vars

----------------------------------------------------------------------------
(* What a rebuild is to produce, read off the contact directory *)

IsCandidate(n) == dir[n].kind = "file" /\ EndsWithVcf(n)

\* the candidate files that parse and carry a full name
GoodFiles == {n \in DOMAIN dir : IsCandidate(n) /\ dir[n].text.ok
                                  /\ Len(dir[n].text.comp.FN) = 1}

\* the candidate files that raise a per-file or per-contact error
BadFiles == {n \in DOMAIN dir : IsCandidate(n) /\ n \notin GoodFiles}

AllVcfParse == \A n \in DOMAIN dir : IsCandidate(n) => dir[n].text.ok

\* the rows (email, name, filePath) the directory calls for
ExpectedRowSet ==
    UNION {{<<dir[n].text.comp.EMAIL[k], dir[n].text.comp.FN[1], PathOf(n)>> :
              k \in 1..Len(dir[n].text.comp.EMAIL)} : n \in GoodFiles}

\* the complete index of a listing, its rows in the listing's order
RECURSIVE ExpectedData(_)
ExpectedData(l) ==
    IF l = <<>> THEN <<>>
    ELSE (IF Head(l) \in GoodFiles
          THEN RowsFor(dir[Head(l)].text.comp.EMAIL, dir[Head(l)].text.comp.FN[1],
                       PathOf(Head(l)))
          ELSE <<>>) \o ExpectedData(Tail(l))

\* the lines of an index file's text, and whether the text is whole rows only
IndexLines(data) == LET pieces == Split(data, NL) IN SubSeq(pieces, 1, Len(pieces) - 1)
WholeRows(data) ==
    /\ Split(data, NL)[Len(Split(data, NL))] = <<>>
    /\ \A k \in 1..Len(IndexLines(data)) : Len(Split(IndexLines(data)[k], TAB)) = 3

\* the row (email, name, filePath) a line of the index file holds
RowOfLine(line) ==
    LET f == Split(line, TAB) IN <<PartOr(f, 1), PartOr(f, 2), PartOr(f, 3)>>

RowSetOf(data) == {RowOfLine(IndexLines(data)[k]) : k \in 1..Len(IndexLines(data))}

RowsWithPath(data, path) ==
    Cardinality({k \in 1..Len(IndexLines(data)) : RowOfLine(IndexLines(data)[k])[3] = path})

\* a file read at the index path is the index from before the rebuild or the
\* complete one the rebuild produces
OldOrNew(f) ==
    \/ f = index0
    \/ bi > Len(entries) /\ f = File(ExpectedData(entries))

\* C1: during build_index, under any interleaving with a reader and after a
\* crash at any step, the index path holds, and a reader reads, either the
\* complete index from before the rebuild or the complete new index
C1_AtomicReplace ==
    /\ OldOrNew(index)
    /\ snapshot.read => OldOrNew(snapshot.file)

\* C1 witness: the rebuild crashed with only a part of the rows written (to
\* the temporary file) while a reader had read the index path
C1_Witness ==
    /\ bpc = "crashed"
    /\ tmp.exists /\ tmp.data # <<>> /\ tmp.data # ExpectedData(entries)
    /\ snapshot.read /\ snapshot.file = OldIndex

\* C3 as claimed: with an existing contact directory build_index ends with the
\* index holding the rows of all contacts that parse and have a name, and
\* returns success if and only if no per-file or per-contact error occurred
C3_Original ==
    (bpc = "done" /\ dirIsDir) =>
        /\ index.exists /\ RowSetOf(index.data) = ExpectedRowSet
        /\ (bresult = "Ok") <=> (BadFiles = {})

\* C3 amended: unless listing the directory or writing the index fails with
\* an I/O error, build_index processes every entry whatever the bad files,
\* writes the index of the rows of all contacts that parse and have a name,
\* and returns success if and only if no per-file or per-contact error occurred
C3_BadFilesNonFatal ==
    (bpc = "done" /\ dirIsDir /\ bresult # "IoError") =>
        /\ bi = Len(entries) + 1
        /\ {entries[k] : k \in 1..Len(entries)} = {n \in DOMAIN dir : dir[n].kind # "absent"}
        /\ index = File(ExpectedData(entries))
        /\ WholeRows(index.data)
        /\ RowSetOf(index.data) = ExpectedRowSet
        /\ (bresult = "Ok") <=> (BadFiles = {})
        /\ (bresult = "SeveralErrors") <=> (BadFiles # {})

\* C3 witness: one unparsable file and one valid contact; the build reports
\* failure and the new index holds the valid contact's row
C3_Witness ==
    /\ bpc = "done" /\ bresult = "SeveralErrors"
    /\ \E b, g \in DOMAIN dir :
          /\ IsCandidate(b) /\ ~dir[b].text.ok
          /\ g \in GoodFiles /\ Len(dir[g].text.comp.EMAIL) = 1
          /\ \E k \in 1..Len(entries) : entries[k] = b /\ k < Len(entries)
    /\ index0 = OldIndex
    /\ index # index0 /\ index.data # <<>>

\* C7: after build_index has written the index of a directory whose .vcf
\* files all parse, the rows of the index file are exactly the
\* (email, name, filePath) of every EMAIL of every contact with a full name:
\* N rows for a contact with N emails, none for a contact without a name,
\* none for a file that does not end in .vcf
C7_IndexRows ==
    (bpc = "done" /\ bresult \in {"Ok", "SeveralErrors"} /\ AllVcfParse) =>
        /\ index.exists /\ WholeRows(index.data)
        /\ RowSetOf(index.data) = ExpectedRowSet
        /\ \A n \in DOMAIN dir :
              RowsWithPath(index.data, PathOf(n)) =
                  IF n \in GoodFiles THEN Len(dir[n].text.comp.EMAIL) ELSE 0

\* C7 witness: a contact with two emails, a contact with an email and no
\* name, and a file that is not a .vcf file
C7_Witness ==
    /\ bpc = "done" /\ bresult \in {"Ok", "SeveralErrors"} /\ AllVcfParse
    /\ \E g, b, t \in DOMAIN dir :
          /\ g \in GoodFiles /\ Len(dir[g].text.comp.EMAIL) = 2
          /\ b \in BadFiles /\ Len(dir[b].text.comp.EMAIL) = 1
          /\ dir[t].kind = "file" /\ ~EndsWithVcf(t)
    /\ Len(IndexLines(index.data)) = 2

\* C9: with a contact directory that is not an existing directory
\* build_index returns the configuration error at once: the index file is as
\* it was, no temporary file is made, the directory is not listed
C9_NotADirectory ==
    ~dirIsDir =>
        /\ bpc \in {"start", "done", "crashed"}
        /\ bpc = "done" => bresult = "ConfigError"
        /\ index = index0 /\ tmp = NoFile /\ ~listed /\ entries = <<>>

\* C9 witness: build_index has returned on a path that is no directory
C9_Witness ==
    ~dirIsDir /\ bpc = "done" /\ bresult = "ConfigError" /\ index = OldIndex

----------------------------------------------------------------------------
(* The "add" command *)

Procs == {1, 2}

Uids == {<<"u1">>, <<"u2">>}

\* format!("{}.vcf", uid)
VcfName(uid) == uid \o <<VcfExt>>

AddNames == {VcfName(u) : u \in Uids}

\* the file name of a path in the contact directory
NameOfPath(path) == SubSeq(path, Len(VdirPath) + 1, Len(path))

\* the values of the From header of the mails on standard input
HeaderValues ==
    { <<"John", " ", "Doe", " ", "<", "john@x.com", ">">>,
      <<"john@x.com">>,
      <<"<", "jane@x.com", ">">> }

\* read_sender_from_email: None or Some(value of the first From header)
Mails == {<<>>} \cup {<<h>> : h \in HeaderValues}

RECURSIVE trim_left_matches(_, _)
trim_left_matches(s, c) ==
    IF s # <<>> /\ Head(s) = c THEN trim_left_matches(Tail(s), c) ELSE s

RECURSIVE trim_right_matches(_, _)
trim_right_matches(s, c) ==
    IF s # <<>> /\ s[Len(s)] = c
    THEN trim_right_matches(SubSeq(s, 1, Len(s) - 1), c) ELSE s

\* the position of the last space of s, or 0
LastSpace(s) ==
    IF Contains(s, " ")
    THEN CHOOSE k \in 1..Len(s) : s[k] = " " /\ \A j \in k + 1..Len(s) : s[j] # " "
    ELSE 0

\* lines 251-259: s.rsplitn(1, ' ') yields the text after the last space,
\* then the text before it
parse_from_header(s) ==
    LET ls == LastSpace(s)
    IN  [fullname |-> IF ls = 0 THEN <<>> ELSE <<SubSeq(s, 1, ls - 1)>>,
         email |-> <<trim_right_matches(
                       trim_left_matches(SubSeq(s, ls + 1, Len(s)), "<"), ">")>>]

\* lines 477-491
generate_component(uid, fullname, email) == Comp(fullname, email, <<uid>>)

NoSender == [fullname |-> <<>>, email |-> <<>>]
NoContact == [path |-> <<>>, component |-> EmptyComp]

AddDirs ==
    { [n \in AddNames |-> Absent],
      [n \in AddNames |->
          IF n = VcfName(<<"u2">>)
          THEN RegFile(write_component(Comp(<<<<"O">>>>, <<<<"o">>>>, <<<<"u2">>>>)))
          ELSE Absent] }

InitAdd ==
    /\ dirIsDir = TRUE
    /\ dir \in AddDirs
    /\ index \in {NoFile, OldIndex}
    /\ dir0 = dir /\ index0 = index
    /\ indexWritable \in BOOLEAN
    /\ apc = [p \in Procs |-> "start"]
    /\ sender = [p \in Procs |-> NoSender]
    /\ contact = [p \in Procs |-> NoContact]
    /\ atmp = [p \in Procs |-> NoFile]
    /\ aexit = [p \in Procs |-> -1]
    /\ wcres = [p \in Procs |-> "none"]
    /\ BuildIdle /\ QueryIdle

\* main_try!: print the message, set the exit status to 1, return
AddFail(p) ==
    /\ apc' = [apc EXCEPT ![p] = "exit"]
    /\ aexit' = [aexit EXCEPT ![p] = 1]

\* lines 234-243: read the mail, find the From header, split it
AddReadSender(p) ==
    /\ apc[p] = "start"
    /\ \E mail \in Mails :
          IF mail = <<>>
          THEN AddFail(p) /\ UNCHANGED sender
          ELSE /\ sender' = [sender EXCEPT ![p] = parse_from_header(mail[1])]
               /\ apc' = [apc EXCEPT ![p] = "generate"]
               /\ UNCHANGED aexit
    /\ UNCHANGED <<contact, atmp, wcres, indexWritable, fsVars>>

\* lines 450-464: one turn of the loop of Contact::generate
AddGenerate(p) ==
    /\ apc[p] = "generate"
    /\ \E uid \in Uids :
          IF dir[VcfName(uid)].kind # "absent"
          THEN UNCHANGED <<apc, contact>>
          ELSE /\ contact' = [contact EXCEPT ![p] =
                      [path |-> PathOf(VcfName(uid)),
                       component |-> generate_component(uid, sender[p].fullname,
                                                        sender[p].email)]]
               /\ apc' = [apc EXCEPT ![p] = "write_tmp"]
    /\ UNCHANGED <<sender, atmp, aexit, wcres, indexWritable, fsVars>>

\* lines 467-472: write_create serializes the component and af.write has the
\* closure write it to the temporary file
AddWriteTmp(p) ==
    /\ apc[p] = "write_tmp"
    /\ \/ /\ atmp' = [atmp EXCEPT ![p] = File(write_component(contact[p].component))]
          /\ apc' = [apc EXCEPT ![p] = "commit"]
          /\ UNCHANGED <<aexit, wcres>>
       \/ /\ wcres' = [wcres EXCEPT ![p] = "IoError"]
          /\ AddFail(p)
          /\ UNCHANGED atmp
    /\ UNCHANGED <<sender, contact, indexWritable, fsVars>>

\* a plausible slip: the contact file is put in place by a rename, as with
\* AllowOverwrite
AfCommitOverwrite(d, name, text) ==
    [ok |-> TRUE, dir |-> [d EXCEPT ![name] = RegFile(text)]]

\* line 468: AtomicFile with DisallowOverwrite links the temporary file to
\* the path, which fails if the path exists
AfCommitCreate(d, name, text) ==
    IF d[name].kind # "absent"
    THEN [ok |-> FALSE, dir |-> d]
    ELSE [ok |-> TRUE, dir |-> [d EXCEPT ![name] = RegFile(text)]]

\* lines 245-246: the end of write_create, and try! of its result
AddCommit(p) ==
    /\ apc[p] = "commit"
    /\ LET c == AfCommitCreate(dir, NameOfPath(contact[p].path), atmp[p].data) IN
       /\ dir' = c.dir
       /\ atmp' = [atmp EXCEPT ![p] = NoFile]
       /\ IF c.ok
          THEN /\ wcres' = [wcres EXCEPT ![p] = "Ok"]
               /\ apc' = [apc EXCEPT ![p] = "open_index"]
               /\ UNCHANGED aexit
          ELSE /\ wcres' = [wcres EXCEPT ![p] = "AlreadyExists"]
               /\ AddFail(p)
    /\ UNCHANGED <<sender, contact, indexWritable, dirIsDir, index, dir0, index0>>

\* lines 209-216: print the path; open the index with Append and Write, which
\* creates the file if there is none
AddOpenIndex(p) ==
    /\ apc[p] = "open_index"
    /\ IF indexWritable
       THEN /\ index' = IF index.exists THEN index ELSE File(<<>>)
            /\ apc' = [apc EXCEPT ![p] = "index_item"]
            /\ UNCHANGED aexit
       ELSE AddFail(p) /\ UNCHANGED index
    /\ UNCHANGED <<sender, contact, atmp, wcres, indexWritable, dirIsDir, dir, dir0, index0>>

\* line 218
AddIndexItem(p) ==
    /\ apc[p] = "index_item"
    /\ IF index_item_from_contact(contact[p]).ok
       THEN apc' = [apc EXCEPT ![p] = "append"] /\ UNCHANGED aexit
       ELSE AddFail(p)
    /\ UNCHANGED <<sender, contact, atmp, wcres, indexWritable, fsVars>>

\* line 219, and the end of cli_main
AddAppend(p) ==
    /\ apc[p] = "append"
    /\ \/ /\ index' = File(index.data \o index_item_from_contact(contact[p]).str)
          /\ apc' = [apc EXCEPT ![p] = "exit"]
          /\ aexit' = [aexit EXCEPT ![p] = 0]
       \/ AddFail(p) /\ UNCHANGED index
    /\ UNCHANGED <<sender, contact, atmp, wcres, indexWritable, dirIsDir, dir, dir0, index0>>

NextAdd ==
    \/ \E p \in Procs : AddReadSender(p) /\ UNCHANGED <<buildVars, queryVars>>
    \/ \E p \in Procs : AddGenerate(p) /\ UNCHANGED <<buildVars, queryVars>>
    \/ \E p \in Procs : AddWriteTmp(p) /\ UNCHANGED <<buildVars, queryVars>>
    \/ \E p \in Procs : AddCommit(p) /\ UNCHANGED <<buildVars, queryVars>>
    \/ \E p \in Procs : AddOpenIndex(p) /\ UNCHANGED <<buildVars, queryVars>>
    \/ \E p \in Procs : AddIndexItem(p) /\ UNCHANGED <<buildVars, queryVars>>
    \/ \E p \in Procs : AddAppend(p) /\ UNCHANGED <<buildVars, queryVars>>

SpecAdd == InitAdd /\ [][NextAdd]_vars

\* the processes whose write_create succeeded on file name n
Winners(n) == {p \in Procs : wcres[p] = "Ok" /\ NameOfPath(contact[p].path) = n}

\* C2: write_create on a path that exists fails with AlreadyExists and leaves
\* the file as it is: of the "add" processes that generated one identifier at
\* most one creates the file, the file holds that one's document, and a file
\* that was there before is never replaced
C2_ExclusiveCreate ==
    /\ \A n \in AddNames :
          /\ Cardinality(Winners(n)) <= 1
          /\ dir0[n].kind # "absent" => Winners(n) = {}
          /\ Winners(n) = {} => dir[n] = dir0[n]
          /\ \A p \in Winners(n) : dir[n] = RegFile(write_component(contact[p].component))
    /\ \A p \in Procs :
          wcres[p] = "AlreadyExists" =>
              /\ dir[NameOfPath(contact[p].path)].kind # "absent"
              /\ apc[p] = "exit" /\ aexit[p] = 1

\* C2 witness: two processes passed the existence check with one identifier
\* and different documents; one created the file, the other got AlreadyExists
C2_Witness ==
    /\ contact[1].path = contact[2].path
    /\ contact[1].component # contact[2].component
    /\ wcres[1] = "AlreadyExists" /\ wcres[2] = "Ok"
    /\ dir[NameOfPath(contact[2].path)] = RegFile(write_component(contact[2].component))

\* C6 as claimed: an "add" that exits non-zero has created no contact file,
\* and when no "add" succeeded or is under way the contact directory and the
\* index file are as they were
C6_AddAllOrNothing ==
    \A p \in Procs :
        (apc[p] = "exit" /\ aexit[p] # 0) =>
            /\ wcres[p] # "Ok"
            /\ (\A q \in Procs : apc[q] = "start" \/ (apc[q] = "exit" /\ aexit[q] # 0))
                  => (dir = dir0 /\ index = index0)

----------------------------------------------------------------------------
(* The query commands: index_query, IndexIterator and the three formats *)

Alphabet == {"a", "b", TAB, NL}

\* the index of the one contact Alice, as "add" or a rebuild writes it
ExampleIndex == <<"a@x.com", TAB, "Alice", TAB, "/p/1.vcf", NL>>

QueryIndexes ==
    {NoFile, File(ExampleIndex)} \cup {File(t) : t \in SeqsUpTo(Alphabet, MaxLen)}

Commands == {"mutt-query", "file-query", "email-query"}

\* MATES_GREP: grep, or a filter that copies its input whatever its argument
GrepCmds == {"grep", "cat"}

\* the search string given on the command line
Query == "a"

\* the lines of a text as a line-oriented filter reads them: a final newline
\* ends the last line and starts no other
LinesOf(text) ==
    LET pieces == Split(text, NL)
    IN  IF pieces[Len(pieces)] = <<>> THEN SubSeq(pieces, 1, Len(pieces) - 1) ELSE pieces

RECURSIVE GrepLines(_, _)
GrepLines(lines, q) ==
    IF lines = <<>> THEN <<>>
    ELSE (IF Contains(Head(lines), q) THEN Head(lines) \o <<NL>> ELSE <<>>)
         \o GrepLines(Tail(lines), q)

\* what the filter process writes for the input it read
FilterOutput(cmd, q, input) ==
    IF cmd = "grep" THEN GrepLines(LinesOf(input), q) ELSE input

\* lines 393-403
IndexItemNew(line) ==
    LET parts == Split(line, TAB)
    IN  [email |-> PartOr(parts, 1), name |-> PartOr(parts, 2), filepath |-> PartOr(parts, 3)]

\* a plausible slip: mutt_query tests the email only
MuttEmitsEmailOnly(item) == Len(item.email) > 0

\* line 337
MuttEmits(item) == Len(item.email) > 0 /\ Len(item.name) > 0
\* line 346
FileEmits(item) == Len(item.filepath) > 0
\* line 355
EmailEmits(item) == Len(item.name) > 0 /\ Len(item.email) > 0

\* line 338: "{}\t{}\t{}"
MuttLine(item) == item.email \o <<TAB>> \o item.name \o <<TAB>> \o item.filepath
\* line 347
FileLine(item) == item.filepath
\* line 356: "{} <{}>"
EmailLine(item) == item.name \o <<" ", "<">> \o item.email \o <<">">>

\* the lines one turn of the command's loop prints for an item
Printed(cmd, item) ==
    IF cmd = "mutt-query" THEN (IF MuttEmits(item) THEN <<MuttLine(item)>> ELSE <<>>)
    ELSE IF cmd = "file-query" THEN (IF FileEmits(item) THEN <<FileLine(item)>> ELSE <<>>)
    ELSE (IF EmailEmits(item) THEN <<EmailLine(item)>> ELSE <<>>)

InitQuery ==
    /\ dirIsDir = TRUE /\ dir = EmptyDir /\ dir0 = dir
    /\ index \in QueryIndexes /\ index0 = index
    /\ command \in Commands
    /\ grep_cmd \in GrepCmds
    /\ qpc = "start" /\ child = "none"
    /\ stdinBuf = <<>> /\ stdinOpen = FALSE /\ childOut = <<>> /\ childOutEof = FALSE
    /\ output = <<>> /\ linebuffer = <<>> /\ yielded = <<>> /\ out = <<>>
    /\ trace = <<>> /\ qresult = "none"
    /\ BuildIdle /\ AddIdle

\* line 335 (mutt_query prints an empty line first), then lines 363-366:
\* spawn the filter with the query as its argument
QSpawn ==
    /\ qpc = "start"
    /\ out' = IF command = "mutt-query" THEN <<<<>>>> ELSE <<>>
    /\ \/ /\ child' = "running"
          /\ stdinOpen' = TRUE
          /\ trace' = Append(trace, "spawn")
          /\ qpc' = "open"
          /\ UNCHANGED qresult
       \/ /\ qresult' = "SpawnError"
          /\ qpc' = "failed"
          /\ UNCHANGED <<child, stdinOpen, trace>>
    /\ UNCHANGED <<command, grep_cmd, stdinBuf, childOut, childOutEof, output,
                   linebuffer, yielded>>

\* line 369: open the index file.  On Err index_query returns at once and the
\* Process is dropped, which closes the child's streams and waits for it
QOpenIndex ==
    /\ qpc = "open"
    /\ IF index.exists
       THEN /\ qpc' = "write"
            /\ UNCHANGED <<stdinOpen, trace, qresult>>
       ELSE /\ stdinOpen' = FALSE
            /\ trace' = Append(trace, "close")
            /\ qresult' = "IoError"
            /\ qpc' = "drop"
    /\ UNCHANGED <<command, grep_cmd, child, stdinBuf, childOut, childOutEof, output,
                   linebuffer, yielded, out>>

\* lines 370-371: read the whole index file and write it to the child's input
QWrite ==
    /\ qpc = "write"
    /\ stdinBuf' = stdinBuf \o index.data
    /\ trace' = Append(trace, "write")
    /\ qpc' = "close"
    /\ UNCHANGED <<command, grep_cmd, child, stdinOpen, childOut, childOutEof, output,
                   linebuffer, yielded, out, qresult>>

\* line 372: the block ends; `stdin` is dropped, which closes the child's input
QClose ==
    /\ qpc = "close"
    /\ stdinOpen' = FALSE
    /\ trace' = Append(trace, "close")
    /\ qpc' = "read"
    /\ UNCHANGED <<command, grep_cmd, child, stdinBuf, childOut, childOutEof, output,
                   linebuffer, yielded, out, qresult>>

\* lines 374-383: stream.read_to_string() returns at the end of the stream
QRead ==
    /\ qpc = "read"
    /\ childOutEof
    /\ output' = childOut
    /\ trace' = Append(trace, "read")
    /\ qpc' = "iter_new"
    /\ UNCHANGED <<command, grep_cmd, child, stdinBuf, stdinOpen, childOut, childOutEof,
                   linebuffer, yielded, out, qresult>>

\* lines 410-416: IndexIterator::new
QIterNew ==
    /\ qpc = "iter_new"
    /\ linebuffer' = Split(output, NL)
    /\ qpc' = "return"
    /\ UNCHANGED <<command, grep_cmd, child, stdinBuf, stdinOpen, childOut, childOutEof,
                   output, yielded, out, trace, qresult>>

\* a plausible slip: the child is not waited for (a Process whose drop does
\* not wait)
QReturnNoWait ==
    /\ qpc = "return"
    /\ qresult' = "Ok"
    /\ qpc' = "iterate"
    /\ UNCHANGED <<command, grep_cmd, child, stdinBuf, stdinOpen, childOut, childOutEof,
                   output, linebuffer, yielded, out, trace>>

\* lines 384-385: index_query returns; its local `process` goes out of scope
\* and std::io::process::Process's drop waits for the child to exit
QReturn ==
    /\ qpc = "return"
    /\ child = "exited"
    /\ trace' = Append(trace, "wait")
    /\ qresult' = "Ok"
    /\ qpc' = "iterate"
    /\ UNCHANGED <<command, grep_cmd, child, stdinBuf, stdinOpen, childOut, childOutEof,
                   output, linebuffer, yielded, out>>

\* the drop of `process` on the early return of line 369
QDropOnError ==
    /\ qpc = "drop"
    /\ child = "exited"
    /\ trace' = Append(trace, "wait")
    /\ qpc' = "failed"
    /\ UNCHANGED <<command, grep_cmd, child, stdinBuf, stdinOpen, childOut, childOutEof,
                   output, linebuffer, yielded, out, qresult>>

\* lines 422-427 and one turn of the loop of lines 336-340, 345-349 or 354-358
QNext ==
    /\ qpc = "iterate"
    /\ IF linebuffer = <<>>
       THEN /\ qpc' = "done"
            /\ UNCHANGED <<linebuffer, yielded, out>>
       ELSE LET x == linebuffer[Len(linebuffer)]
                item == IndexItemNew(x)
            IN  /\ linebuffer' = SubSeq(linebuffer, 1, Len(linebuffer) - 1)
                /\ yielded' = Append(yielded, item)
                /\ out' = out \o Printed(command, item)
                /\ UNCHANGED qpc
    /\ UNCHANGED <<command, grep_cmd, child, stdinBuf, stdinOpen, childOut, childOutEof,
                   output, trace, qresult>>

\* the filter process reads its input to the end and writes what matches
ChildFilter ==
    /\ child = "running"
    /\ ~stdinOpen
    /\ childOut' = FilterOutput(grep_cmd, Query, stdinBuf)
    /\ child' = "filtered"
    /\ UNCHANGED <<qpc, command, grep_cmd, stdinBuf, stdinOpen, childOutEof, output,
                   linebuffer, yielded, out, trace, qresult>>

\* the filter process closes its output
ChildCloseOut ==
    /\ child = "filtered"
    /\ childOutEof' = TRUE
    /\ child' = "closed"
    /\ UNCHANGED <<qpc, command, grep_cmd, stdinBuf, stdinOpen, childOut, output,
                   linebuffer, yielded, out, trace, qresult>>

\* the filter process exits
ChildExit ==
    /\ child = "closed"
    /\ child' = "exited"
    /\ UNCHANGED <<qpc, command, grep_cmd, stdinBuf, stdinOpen, childOut, childOutEof,
                   output, linebuffer, yielded, out, trace, qresult>>

NextQuery ==
    \/ /\ QSpawn /\ UNCHANGED <<fsVars, buildVars, addVars>>
    \/ /\ QOpenIndex /\ UNCHANGED <<fsVars, buildVars, addVars>>
    \/ /\ QWrite /\ UNCHANGED <<fsVars, buildVars, addVars>>
    \/ /\ QClose /\ UNCHANGED <<fsVars, buildVars, addVars>>
    \/ /\ QRead /\ UNCHANGED <<fsVars, buildVars, addVars>>
    \/ /\ QIterNew /\ UNCHANGED <<fsVars, buildVars, addVars>>
    \/ /\ QReturn /\ UNCHANGED <<fsVars, buildVars, addVars>>
    \/ /\ QDropOnError /\ UNCHANGED <<fsVars, buildVars, addVars>>
    \/ /\ QNext /\ UNCHANGED <<fsVars, buildVars, addVars>>
    \/ /\ ChildFilter /\ UNCHANGED <<fsVars, buildVars, addVars>>
    \/ /\ ChildCloseOut /\ UNCHANGED <<fsVars, buildVars, addVars>>
    \/ /\ ChildExit /\ UNCHANGED <<fsVars, buildVars, addVars>>

SpecQuery == InitQuery /\ [][NextQuery]_vars

----------------------------------------------------------------------------
(* The claims about a query *)

IsPrefix(s, t) == Len(s) <= Len(t) /\ s = SubSeq(t, 1, Len(s))

RoundTrip == <<"spawn", "write", "close", "read", "wait">>

RECURSIVE ItemsOf(_)
ItemsOf(lines) ==
    IF lines = <<>> THEN <<>> ELSE <<IndexItemNew(Head(lines))>> \o ItemsOf(Tail(lines))

NewlinesIn(text) == Cardinality({k \in 1..Len(text) : text[k] = NL})

\* C4 as claimed: the records come in the order of the lines of the filter's
\* output, whether or not the empty text after a final newline is a record
C4_OutputOrder ==
    qpc = "done" =>
        LET pieces == Split(output, NL)
            all == ItemsOf(pieces)
        IN  \/ yielded = all
            \/ pieces[Len(pieces)] = <<>> /\ yielded = SubSeq(all, 1, Len(all) - 1)

\* C5 as claimed: when the filter's output ends with a newline there are as
\* many records as newline-terminated lines, and the index of Alice alone
\* through a filter that passes it yields her record and no other
C5_TrailingLineDiscarded ==
    (qpc = "done" /\ output # <<>> /\ output[Len(output)] = NL) =>
        /\ Len(yielded) = NewlinesIn(output)
        /\ output = ExampleIndex =>
              yielded = <<[email |-> <<"a@x.com">>, name |-> <<"Alice">>,
                           filepath |-> <<"/p/1.vcf">>]>>

\* the lines the claim has a command emit for a sequence of records
RECURSIVE ClaimedLines(_, _)
ClaimedLines(cmd, recs) ==
    IF recs = <<>> THEN <<>>
    ELSE LET r == Head(recs)
             line == IF cmd = "mutt-query"
                     THEN (IF r.email # <<>> /\ r.name # <<>>
                           THEN <<r.email \o <<TAB>> \o r.name \o <<TAB>> \o r.filepath>>
                           ELSE <<>>)
                     ELSE IF cmd = "email-query"
                     THEN (IF r.name # <<>> /\ r.email # <<>>
                           THEN <<r.name \o <<" ", "<">> \o r.email \o <<">">> >>
                           ELSE <<>>)
                     ELSE (IF r.filepath # <<>> THEN <<r.filepath>> ELSE <<>>)
         IN  line \o ClaimedLines(cmd, Tail(recs))

\* C8: of the records index_query returns, mutt_query prints a line for
\* exactly those with a non-empty email and a non-empty name (after its
\* leading empty line), email_query for exactly those with a non-empty name
\* and a non-empty email, file_query for exactly those with a non-empty
\* filepath
C8_Projections ==
    qresult = "Ok" =>
        out = (IF command = "mutt-query" THEN <<<<>>>> ELSE <<>>)
              \o ClaimedLines(command, yielded)

\* C8 witness: file_query has printed the filepath of a record with an email
\* and an empty name
C8_Witness ==
    /\ qpc = "done" /\ command = "file-query"
    /\ \E k \in 1..Len(yielded) :
          /\ yielded[k].name = <<>> /\ yielded[k].email # <<>>
          /\ yielded[k].filepath # <<>>
          /\ \E j \in 1..Len(out) : out[j] = yielded[k].filepath

\* C10: index_query spawns the child, writes the whole index to its input,
\* closes its input, reads all its output and waits for its exit, in this
\* order: the input is closed before any output is read and the records are
\* returned only after the child has exited
C10_RoundTrip ==
    /\ IsPrefix(trace, RoundTrip) \/ IsPrefix(trace, <<"spawn", "close", "wait">>)
    /\ qresult = "Ok" => (trace = RoundTrip /\ child = "exited")
    /\ Contains(trace, "read") =>
          (~stdinOpen /\ stdinBuf = index.data /\ childOutEof /\ output = childOut)
    /\ Contains(trace, "wait") => child = "exited"
    /\ stdinOpen => childOut = <<>>
    /\ yielded # <<>> => qresult = "Ok"

\* C10 witness: index_query has returned the records of a non-empty output
C10_Witness ==
    /\ qresult = "Ok" /\ trace = RoundTrip
    /\ stdinBuf # <<>> /\ output # <<>> /\ child = "exited"

====
